---- MODULE Spec2Model ----
(***************************************************************************)
(* SMS Video Converter: the batch conversion engine of                     *)
(* sms_video_converter.py and of its predecessor ps2_sms_converter.py.     *)
(*                                                                         *)
(* main() scans the source path (get_sources), collects the preferences    *)
(* (get_options) and then converts the sources one after the other: skip   *)
(* or remove an existing output, build the plan (crop, resolution,         *)
(* subtitle directive), launch ffmpeg, read its stderr byte by byte up to  *)
(* end-of-stream, wait for it, and report the outcome.                     *)
(*                                                                         *)
(* The two programs share every operation but get_options, SUBTITLE_EXTS   *)
(* and the video bitrate; the variable program says which one runs.        *)
(***************************************************************************)
EXTENDS Integers, Sequences, FiniteSets, TLC

VARIABLES
    program,          \* "sms" (sms_video_converter.py) or "ps2" (ps2_sms_converter.py)
    dir_listing,      \* os.listdir(base_dir): the file names of the source directory, in OS order
    output_files,     \* the output directory: output base name -> state of <base name>.avi
    pc,               \* position of main(): "scan", "options", "loop", "read", "wait", "done", "crashed"
    source_list,      \* get_sources(): the scanned sources, in scan order
    v_bitrate,        \* get_options(): video bitrate in kbps
    should_crop,      \* get_options(): crop widescreen sources to 4:3
    subtitle_choice,  \* get_options(): None, 'ext' or the index of an internal track
    overwrite_output, \* get_options(): overwrite existing outputs
    idx,              \* main(): 1-based position in source_list of the source the for loop is at
    count,            \* main(): the counter shown in the progress label
    console,          \* what main() and convert() printed about each source (percent updates apart)
    procs,            \* every ffmpeg child launched so far, in launch order
    consumed,         \* every chunk read so far from the current child's stderr
    buffer,           \* convert(): bytes read since the last carriage return
    all_stderr,       \* convert(): the accumulated diagnostic text
    duration,         \* convert(): the announced duration, None until found
    emitted,          \* convert(): the percentages printed for the current child
    raised            \* the exception that ended the program, if any

vars == <<program, dir_listing, output_files, pc, source_list, v_bitrate, should_crop,
          subtitle_choice, overwrite_output, idx, count, console, procs, consumed,
          buffer, all_stderr, duration, emitted, raised>>

(***************************************************************************)
(* Bounds of the model.                                                    *)
(***************************************************************************)
\* Longest directory listing of a batch.
MaxFiles == 3
\* Most chunks one ffmpeg child writes to its stderr before closing it.
MaxStream == 4
\* Most subtitle tracks a source carries.
MaxTracks == 1
\* Largest width and height the probe reports in the geometry specification.
MaxDim == 20

(***************************************************************************)
(* Program constants.                                                      *)
(***************************************************************************)
VIDEO_EXTS == {"mkv", "mp4", "avi", "rmvb", "rm", "mov", "flv", "mpg", "mpeg", "wmv"}

SUBTITLE_EXTS(prog) == IF prog = "sms" THEN {"ass", "ssa", "srt"} ELSE {"ass", "srt"}

RESOLUTION_4BY3 == "640x480"

RESOLUTION_16BY9 == "854x480"

VIDEO_BITRATE_MIN == 1000

VIDEO_BITRATE_MAX == 9000

VIDEO_BITRATE == 3000

AUDIO_BITRATE == "192k"

Programs == {"sms", "ps2"}

(***************************************************************************)
(* File names.  os.path.splitext splits a name into stem and extension;    *)
(* the stem is a sequence of characters because has_external_subtitle      *)
(* tests one stem for being a substring of another.                        *)
(***************************************************************************)
FileName(stem, ext) == [stem |-> stem, ext |-> ext]

NoFile == FileName(<<>>, "")

\* The file names a source directory of the model may hold.
DirNames ==
    { FileName(<<"a">>, "mkv"), FileName(<<"a">>, "mp4"),
      FileName(<<"b">>, "mkv"), FileName(<<"a", "b">>, "srt") }

IsVideo(f) == f.ext \in VIDEO_EXTS

\* The listings of at most n distinct names.
Listings(names, n) ==
    { s \in UNION { [1..k -> names] : k \in 1..n } :
        \A i, j \in DOMAIN s : i # j => s[i] # s[j] }

\* The base names an output file of the model may carry.
OutStems == { f.stem : f \in { g \in DirNames : IsVideo(g) } }

Absent == [state |-> "absent", by |-> 0]

Old == [state |-> "old", by |-> 0]

(***************************************************************************)
(* probe_source: what ffprobe reports of a video file.  The subtitle       *)
(* streams are a list of which only the length is ever used.               *)
(***************************************************************************)
Probe(w, h, n) == [width |-> w, height |-> h, subtitles |-> n]

NoProbe == Probe(0, 0, 0)

\* int(x / y) for y > 0: Python's int() truncates toward zero.
IntDiv(x, y) == IF x >= 0 THEN x \div y ELSE -((-x) \div y)

\* Floor variant of the same quotient.
calculate_cropping_floor(resolution) ==
    LET output_width == (4 * resolution.height) \div 3
    IN  [width |-> output_width, height |-> resolution.height,
         x |-> (resolution.width - output_width) \div 2, y |-> 0]

\* calculate_cropping: 'crop=<output_width>:<height>:<cropped_width>:0'.
\* int((height / 3) * 4) is the truncation of 4*height/3: the float quotient
\* height/3 is exact when 3 divides height, and otherwise its error is far
\* below the distance 1/3 of 4*height/3 to the next integer.
calculate_cropping(resolution) ==
    LET output_width == IntDiv(4 * resolution.height, 3)
        cropped_width == IntDiv(resolution.width - output_width, 2)
    IN  [width |-> output_width, height |-> resolution.height,
         x |-> cropped_width, y |-> 0]

\* 'ratio': height / width, kept as the exact fraction.  Comparing the float
\* quotient with 0.65 and 0.7 agrees with comparing the fraction for every
\* width below 2^40: a fraction that differs from 13/20 or 7/10 differs by at
\* least 1/(20*width), far more than the rounding error of a double.
Ratio(resolution) == [num |-> resolution.height, den |-> resolution.width]

\* ratio < n/d, for den > 0 and d > 0.
RatioLess(r, n, d) == r.num * d < n * r.den

Source(f, resolution) ==
    [video |-> f, ratio |-> Ratio(resolution),
     crop_cmd |-> calculate_cropping(resolution), subtitles |-> resolution.subtitles]

\* get_sources, lines 273-285: the scan of files_list from position k on.
\* resolution['height'] / resolution['width'] raises ZeroDivisionError for
\* width 0, which nothing catches.
RECURSIVE Scan(_, _, _)
Scan(files, probe, k) ==
    IF k > Len(files) THEN [crashed |-> FALSE, list |-> <<>>]
    ELSE IF ~IsVideo(files[k]) THEN Scan(files, probe, k + 1)
    ELSE IF probe[k].width = 0 THEN [crashed |-> TRUE, list |-> <<>>]
    ELSE LET rest == Scan(files, probe, k + 1)
         IN  [crashed |-> rest.crashed,
              list |-> IF rest.crashed THEN <<>>
                       ELSE <<Source(files[k], probe[k])>> \o rest.list]

\* The probe results of a listing: one per video file, none for the others.
ProbesOf(files, results) ==
    { p \in [1..Len(files) -> results \cup {NoProbe}] :
        \A k \in 1..Len(files) :
            IF IsVideo(files[k]) THEN p[k] \in results ELSE p[k] = NoProbe }

NoError == [kind |-> "None", text |-> <<>>]

NoDuration == [known |-> FALSE, secs |-> 0]

NoSubtitle == [kind |-> "None", index |-> 0]

ExtSubtitle == [kind |-> "ext", index |-> 0]

IntSubtitle(i) == [kind |-> "int", index |-> i]

(***************************************************************************)
(* The state main() starts in: the directory and the output directory are  *)
(* the environment; nothing was scanned, asked or launched.                *)
(***************************************************************************)
\* outs: the states the output directory may be in.
InitOver(progs, listings, outs) ==
    /\ program \in progs
    /\ dir_listing \in listings
    /\ output_files \in outs
    /\ pc = "scan"
    /\ source_list = <<>>
    /\ v_bitrate = 0
    /\ should_crop = FALSE
    /\ subtitle_choice = NoSubtitle
    /\ overwrite_output = FALSE
    /\ idx = 0
    /\ count = 0
    /\ console = <<>>
    /\ procs = <<>>
    /\ consumed = <<>>
    /\ buffer = <<>>
    /\ all_stderr = <<>>
    /\ duration = NoDuration
    /\ emitted = <<>>
    /\ raised = NoError

\* stems: the base names whose output may exist before the batch.
InitWith(progs, listings, stems) ==
    InitOver(progs, listings,
             { o \in [OutStems -> {Absent, Old}] :
                 \A s \in OutStems \ stems : o[s] = Absent })

(***************************************************************************)
(* get_sources.  target 0 is a directory path (files_list is its listing), *)
(* target k > 0 the path of the k-th file of the directory (files_list is  *)
(* that one file).  A scan that finds no video asks for the path again.    *)
(***************************************************************************)
FilesList(target) == IF target = 0 THEN dir_listing ELSE <<dir_listing[target]>>

GetSources(target, probe) ==
    /\ pc = "scan"
    /\ LET r == Scan(FilesList(target), probe, 1)
       IN  IF r.crashed
           THEN /\ pc' = "crashed"
                /\ raised' = [kind |-> "ZeroDivisionError", text |-> <<>>]
                /\ UNCHANGED source_list
           ELSE IF r.list = <<>>
           THEN UNCHANGED <<pc, raised, source_list>>
           ELSE /\ source_list' = r.list
                /\ pc' = "options"
                /\ UNCHANGED raised
    /\ UNCHANGED <<program, dir_listing, output_files, v_bitrate, should_crop,
                   subtitle_choice, overwrite_output, idx, count, console, procs,
                   consumed, buffer, all_stderr, duration, emitted>>

\* get_sources on the path target, ffprobe reporting one of results per video.
ScanPath(target, results) ==
    /\ pc = "scan"
    /\ \E probe \in ProbesOf(FilesList(target), results) : GetSources(target, probe)

(***************************************************************************)
(* get_output_dir and get_options, then main's count = 1.  An invalid      *)
(* answer is asked again, so only valid answers leave the prompts:         *)
(* sms_video_converter.py takes a bitrate in 1000..9000 and a track number *)
(* made of digits; ps2_sms_converter.py has the fixed bitrate and takes    *)
(* any int() as the track number.                                          *)
(***************************************************************************)
ValidBitrate(prog, vb) ==
    IF prog = "sms" THEN VIDEO_BITRATE_MIN <= vb /\ vb <= VIDEO_BITRATE_MAX
    ELSE vb = VIDEO_BITRATE

ValidTrackNumber(prog, sub) ==
    sub.kind = "int" /\ prog = "sms" => sub.index >= 0

GetOptions(vb, crop, sub, ow) ==
    /\ pc = "options"
    /\ ValidBitrate(program, vb)
    /\ ValidTrackNumber(program, sub)
    /\ v_bitrate' = vb
    /\ should_crop' = crop
    /\ subtitle_choice' = sub
    /\ overwrite_output' = ow
    /\ count' = 1
    /\ idx' = 1
    /\ pc' = "loop"
    /\ UNCHANGED <<program, dir_listing, output_files, source_list, console, procs,
                   consumed, buffer, all_stderr, duration, emitted, raised>>

(***************************************************************************)
(* The progress label of main, line 420:                                   *)
(*   f"\r {str(count).rjust(count_padding, ' ')}/{len(source_list)}:       *)
(*        Converting {each_source['video']}..."                            *)
(***************************************************************************)
DigitChars == <<"0", "1", "2", "3", "4", "5", "6", "7", "8", "9">>

\* str(n) of a natural number: its decimal digits.
RECURSIVE Str(_)
Str(n) ==
    IF n < 10 THEN <<DigitChars[n + 1]>>
    ELSE Str(n \div 10) \o <<DigitChars[(n % 10) + 1]>>

\* s.rjust(width, fill)
Rjust(s, width, fill) ==
    IF Len(s) >= width THEN s ELSE [i \in 1..(width - Len(s)) |-> fill] \o s

\* Variant that prints the bare sequence number.
ProgressMsgUnpadded(cnt, total, video) ==
    [index |-> Str(cnt), total |-> total, video |-> video]

ProgressMsg(cnt, total, video) ==
    [index |-> Rjust(Str(cnt), Len(Str(total)), " "), total |-> total, video |-> video]

\* One print about the source at position src of source_list.
Line(src, msg, suffix) == [src |-> src, msg |-> msg, suffix |-> suffix]

(***************************************************************************)
(* The output path and the skip / overwrite policy, main lines 423-429.    *)
(***************************************************************************)
\* os.path.splitext(video)[0] + '.avi' in the output directory: the stem names it.
OutputOf(video) == video.stem

Exists(files, output) == files[output].state # "absent"

\* if os.path.exists(output): if not overwrite_output: ... continue
Skips(exists, overwrite) == exists /\ ~overwrite

\* Variant that leaves the existing file in place.
KeepOutput(files, output) == files

\* os.remove(output)
RemoveOutput(files, output) == [files EXCEPT ![output] = Absent]

(***************************************************************************)
(* The plan of one source, main lines 431-448.                             *)
(***************************************************************************)
NoCrop == [applied |-> FALSE, rect |-> [width |-> 0, height |-> 0, x |-> 0, y |-> 0]]

Crop(rect) == [applied |-> TRUE, rect |-> rect]

\* Variant of the geometry rule that leaves the resolution alone when it crops.
CropKeepsResolution(src, crop_pref) ==
    LET cropped == crop_pref /\ RatioLess(src.ratio, 65, 100)
    IN  [crop |-> IF cropped THEN Crop(src.crop_cmd) ELSE NoCrop,
         resolution |-> IF ~RatioLess(src.ratio, 7, 10) THEN RESOLUTION_4BY3
                        ELSE RESOLUTION_16BY9]

\* Variant of the geometry rule whose crop threshold is inclusive.
CropInclusive(src, crop_pref) ==
    LET cropped == crop_pref /\ ~RatioLess([num |-> 65, den |-> 100], src.ratio.num, src.ratio.den)
    IN  [crop |-> IF cropped THEN Crop(src.crop_cmd) ELSE NoCrop,
         resolution |-> IF cropped \/ ~RatioLess(src.ratio, 7, 10) THEN RESOLUTION_4BY3
                        ELSE RESOLUTION_16BY9]

\* Variant of the geometry rule that crops whenever cropping is wanted.
CropAlways(src, crop_pref) ==
    [crop |-> IF crop_pref THEN Crop(src.crop_cmd) ELSE NoCrop,
     resolution |-> IF crop_pref \/ ~RatioLess(src.ratio, 7, 10) THEN RESOLUTION_4BY3
                    ELSE RESOLUTION_16BY9]

\* Lines 431-437: crop and resolution, assignment by assignment.
Geometry(src, crop_pref) ==
    LET crop0 == NoCrop
        resolution0 == RESOLUTION_16BY9
        cropped == crop_pref /\ RatioLess(src.ratio, 65, 100)
        crop1 == IF cropped THEN Crop(src.crop_cmd) ELSE crop0
        resolution1 == IF cropped THEN RESOLUTION_4BY3 ELSE resolution0
        resolution2 == IF ~RatioLess(src.ratio, 7, 10) THEN RESOLUTION_4BY3 ELSE resolution1
    IN  [crop |-> crop1, resolution |-> resolution2]

NoDirective == [kind |-> "None", file |-> NoFile, si |-> 0]

\* 'subtitles=<file>'
FileDirective(f) == [kind |-> "file", file |-> f, si |-> 0]

\* 'subtitles=<source>:si=<index>'
StreamDirective(f, i) == [kind |-> "stream", file |-> f, si |-> i]

\* a in b, for two stems
IsSubstring(a, b) ==
    \E i \in 0..(Len(b) - Len(a)) : SubSeq(b, i + 1, i + Len(a)) = a

\* has_external_subtitle: the first file of the directory with a subtitle
\* extension whose stem contains the source's stem.  (No name of DirNames has
\* an upper-case extension, so each_ext.lower() changes nothing here.)
has_external_subtitle(prog, listing, source) ==
    LET hits == { k \in 1..Len(listing) :
                    /\ listing[k].ext \in SUBTITLE_EXTS(prog)
                    /\ IsSubstring(source.stem, listing[k].stem) }
    IN  IF hits = {} THEN NoDirective
        ELSE FileDirective(listing[CHOOSE k \in hits : \A j \in hits : k <= j])

\* has_internal_subtitle: subtitle_streams[subtitle_choice] raises IndexError,
\* which is caught, exactly when the index is outside -n .. n-1 (a negative
\* index counts from the end of a Python list).
has_internal_subtitle(source, subtitle_streams, choice) ==
    IF -subtitle_streams <= choice /\ choice < subtitle_streams
    THEN StreamDirective(source, choice)
    ELSE NoDirective

\* Lines 439-448.
Subtitle(prog, listing, src, choice) ==
    IF choice.kind = "None" THEN NoDirective
    ELSE IF choice.kind = "ext" THEN has_external_subtitle(prog, listing, src.video)
    ELSE has_internal_subtitle(src.video, src.subtitles, choice.index)

\* convert, lines 340-365: the filter chain is crop, then subtitle.
Filters(crop, subtitle) ==
    (IF crop.applied THEN <<"crop">> ELSE <<>>)
        \o (IF subtitle.kind # "None" THEN <<"subtitles">> ELSE <<>>)

Plan(prog, listing, src, vb, crop_pref, choice) ==
    LET g == Geometry(src, crop_pref)
        subtitle == Subtitle(prog, listing, src, choice)
    IN  [source |-> src.video, v_bitrate |-> vb, crop |-> g.crop, subtitle |-> subtitle,
         resolution |-> g.resolution, output |-> OutputOf(src.video),
         vf |-> Filters(g.crop, subtitle)]

(***************************************************************************)
(* The for loop of main, lines 419-452.                                    *)
(***************************************************************************)
AtSource == pc = "loop" /\ idx <= Len(source_list)

CurrentMsg == ProgressMsg(count, Len(source_list), source_list[idx].video)

CurrentOutput == OutputOf(source_list[idx].video)

\* Lines 420-427: the output exists and is kept; the loop continues.
SkipSource ==
    /\ AtSource
    /\ Skips(Exists(output_files, CurrentOutput), overwrite_output)
    /\ console' = console \o <<Line(idx, CurrentMsg, ""),
                               Line(idx, CurrentMsg, "Skipped, file already existed!")>>
    /\ idx' = idx + 1
    /\ UNCHANGED <<program, dir_listing, output_files, pc, source_list, v_bitrate,
                   should_crop, subtitle_choice, overwrite_output, count, procs, consumed,
                   buffer, all_stderr, duration, emitted, raised>>

Process(src, plan, msg) ==
    [src |-> src, plan |-> plan, msg |-> msg, status |-> "running", eof |-> FALSE,
     returncode |-> 0]

\* Lines 420-450 and convert up to line 374: remove an existing output, build
\* the plan, launch ffmpeg and start reading its stderr.
LaunchSource ==
    /\ AtSource
    /\ ~Skips(Exists(output_files, CurrentOutput), overwrite_output)
    /\ console' = Append(console, Line(idx, CurrentMsg, ""))
    /\ output_files' = IF Exists(output_files, CurrentOutput)
                       THEN RemoveOutput(output_files, CurrentOutput)
                       ELSE output_files
    /\ procs' = Append(procs,
                       Process(idx,
                               Plan(program, dir_listing, source_list[idx], v_bitrate,
                                    should_crop, subtitle_choice),
                               CurrentMsg))
    /\ consumed' = <<>>
    /\ buffer' = <<>>
    /\ all_stderr' = <<>>
    /\ duration' = NoDuration
    /\ emitted' = <<>>
    /\ pc' = "read"
    /\ UNCHANGED <<program, dir_listing, source_list, v_bitrate, should_crop,
                   subtitle_choice, overwrite_output, idx, count, raised>>

\* The for loop is exhausted: main returns.
Finish ==
    /\ pc = "loop"
    /\ idx > Len(source_list)
    /\ pc' = "done"
    /\ UNCHANGED <<program, dir_listing, output_files, source_list, v_bitrate,
                   should_crop, subtitle_choice, overwrite_output, idx, count, console,
                   procs, consumed, buffer, all_stderr, duration, emitted, raised>>

(***************************************************************************)
(* The stderr of ffmpeg.  convert reads it one byte at a time and acts     *)
(* only on a carriage return, on everything read since the last one.  A    *)
(* chunk of the model is a carriage return, or a run of bytes without one: *)
(* plain text, white space, 'Duration: HH:MM:SS.ff', the word 'Duration'   *)
(* without a timestamp ('Duration: N/A'), or 'time=HH:MM:SS.ff'.           *)
(***************************************************************************)
Chunk(k, t) == [k |-> k, t |-> t]

NoTime == <<0, 0, 0, 0>>

CR == Chunk("cr", NoTime)

NL == Chunk("nl", NoTime)

Text == Chunk("txt", NoTime)

Space == Chunk("ws", NoTime)

DurationNA == Chunk("DurationNA", NoTime)

DurationAt(t) == Chunk("Duration", t)

TimeAt(t) == Chunk("time", t)

IsWhite(c) == c.k \in {"cr", "nl", "ws"}

\* str.strip(): leading and trailing white space removed.
RECURSIVE LStrip(_)
LStrip(s) == IF s # <<>> /\ IsWhite(Head(s)) THEN LStrip(Tail(s)) ELSE s

RECURSIVE RStrip(_)
RStrip(s) ==
    IF s # <<>> /\ IsWhite(s[Len(s)]) THEN RStrip(SubSeq(s, 1, Len(s) - 1)) ELSE s

Strip(s) == RStrip(LStrip(s))

\* re.search: the first chunk of the line of kind k, if any.
Matches(line, k) == { i \in 1..Len(line) : line[i].k = k }

FirstMatch(line, k) ==
    line[CHOOSE i \in Matches(line, k) : \A j \in Matches(line, k) : i <= j]

\* split('.')[0], then sum(a * b for a, b in zip([3600, 60, 1], map(int, split(':'))))
Seconds(t) == 3600 * t[1] + 60 * t[2] + t[3]

\* The pairs (current, duration) of the model's timestamps for which the double
\* current / duration * 100 falls just below the integer 100 * current / duration.
FloatShort ==
    { <<c, 100>> : c \in {29, 57, 58, 113, 114, 115, 116} }

\* int(current_time / duration * 100), for duration > 0.
Percentage(current_time, total) ==
    IF <<current_time, total>> \in FloatShort
    THEN (100 * current_time) \div total - 1
    ELSE (100 * current_time) \div total

\* Lines 388-393: the first announced duration is kept.
DurationAfter(line, dur) ==
    IF (Matches(line, "Duration") # {} \/ Matches(line, "DurationNA") # {})
       /\ ~dur.known /\ Matches(line, "Duration") # {}
    THEN [known |-> TRUE, secs |-> Seconds(FirstMatch(line, "Duration").t)]
    ELSE dur

\* Variant that prints 0% while no duration is known.
EmittedUnguarded(line, dur, out) ==
    IF Matches(line, "time") # {}
    THEN Append(out, IF dur.secs # 0
                     THEN Percentage(Seconds(FirstMatch(line, "time").t), dur.secs)
                     ELSE 0)
    ELSE out

\* Lines 395-403: a line with a timestamp prints a percentage, unless the
\* division raises (duration None: TypeError; duration 0: ZeroDivisionError),
\* which the bare except swallows.
EmittedAfter(line, dur, out) ==
    IF Matches(line, "time") # {} /\ dur.known /\ dur.secs # 0
    THEN Append(out, Percentage(Seconds(FirstMatch(line, "time").t), dur.secs))
    ELSE out

CurrentProc == procs[Len(procs)]

\* Lines 377-403: one chunk is read and appended to the buffer; a carriage
\* return completes a line.
ReadChunk(c) ==
    /\ pc = "read"
    /\ Len(consumed) < MaxStream
    /\ consumed' = Append(consumed, c)
    /\ IF c.k = "cr"
       THEN LET line == Strip(Append(buffer, c))
                dur == DurationAfter(line, duration)
            IN  /\ buffer' = <<>>
                /\ all_stderr' = all_stderr \o line \o <<NL>>
                /\ duration' = dur
                /\ emitted' = EmittedAfter(line, dur, emitted)
       ELSE /\ buffer' = Append(buffer, c)
            /\ UNCHANGED <<all_stderr, duration, emitted>>
    /\ UNCHANGED <<program, dir_listing, output_files, pc, source_list, v_bitrate,
                   should_crop, subtitle_choice, overwrite_output, idx, count, console,
                   procs, raised>>

\* Lines 377-379: the read returns nothing, the stream is at its end.
ReadEOF ==
    /\ pc = "read"
    /\ procs' = [procs EXCEPT ![Len(procs)].eof = TRUE]
    /\ pc' = "wait"
    /\ UNCHANGED <<program, dir_listing, output_files, source_list, v_bitrate,
                   should_crop, subtitle_choice, overwrite_output, idx, count, console,
                   consumed, buffer, all_stderr, duration, emitted, raised>>

\* Variant that takes only positive exit codes for failures.
FailsIfPositive(returncode) == returncode > 0

\* Variant that takes every exit code for a success.
IgnoresExitCode(returncode) == FALSE

\* Line 406: if ffmpeg_process.returncode != 0
Fails(returncode) == returncode # 0

\* Variant that does not wait for the child.
NoWait(p, returncode) == p

\* Line 405: ffmpeg_process.wait()
Wait(p, returncode) == [p EXCEPT !.status = "exited", !.returncode = returncode]

\* The file ffmpeg leaves at the output path: the whole output after exit
\* code 0; after a failure a partial file, or none.
Written(src) == [state |-> "written", by |-> src]

Partial(src) == [state |-> "partial", by |-> src]

\* Lines 405-408 and main lines 451-452: the child is waited for; a failure
\* prints Failed and raises, a success prints Completed, counts and goes on.
Exit(returncode, left) ==
    /\ pc = "wait"
    /\ returncode = 0 => left
    /\ procs' = [procs EXCEPT ![Len(procs)] = Wait(CurrentProc, returncode)]
    /\ output_files' =
           [output_files EXCEPT ![CurrentProc.plan.output] =
               IF returncode = 0 THEN Written(CurrentProc.src)
               ELSE IF left THEN Partial(CurrentProc.src) ELSE @]
    /\ IF Fails(returncode)
       THEN /\ console' = Append(console, Line(CurrentProc.src, CurrentProc.msg, "Failed"))
            /\ raised' = [kind |-> "Exception", text |-> all_stderr]
            /\ pc' = "crashed"
            /\ UNCHANGED <<count, idx>>
       ELSE /\ console' = Append(console, Line(CurrentProc.src, CurrentProc.msg, "Completed"))
            /\ count' = count + 1
            /\ idx' = idx + 1
            /\ pc' = "loop"
            /\ UNCHANGED raised
    /\ UNCHANGED <<program, dir_listing, source_list, v_bitrate, should_crop,
                   subtitle_choice, overwrite_output, consumed, buffer, all_stderr,
                   duration, emitted>>

(***************************************************************************)
(* The batch: a directory of up to MaxFiles files is converted.            *)
(***************************************************************************)
\* Exit codes of ffmpeg: success, an error, death by a signal.
ExitCodes == {0, 1, -9}

\* What ends a child: its exit code and, after a failure, whether it left a file.
Exits(codes) == { e \in codes \X BOOLEAN : e[1] = 0 => e[2] }

BatchProbes == { Probe(16, 9, 0), Probe(4, 3, 0) }

Init == InitWith(Programs, Listings(DirNames, MaxFiles), OutStems)

Next ==
    \/ ScanPath(0, BatchProbes)
    \/ \E crop, ow \in BOOLEAN : GetOptions(VIDEO_BITRATE, crop, NoSubtitle, ow)
    \/ SkipSource
    \/ LaunchSource
    \/ \E c \in {CR} : ReadChunk(c)
    \/ ReadEOF
    \/ \E e \in Exits({0, 1}) : Exit(e[1], e[2])
    \/ Finish

Spec == Init /\ [][Next]_vars

(***************************************************************************)
(* One file: the source path names a single video file of a directory that *)
(* may hold a subtitle file beside it; every preference and every class of *)
(* geometry is drawn.                                                      *)
(***************************************************************************)
FileDirNames == { FileName(<<"a">>, "mkv"), FileName(<<"a", "b">>, "srt") }

\* Width and height on each side of the two thresholds, on them, and invalid.
FileGeometries ==
    { <<16, 9>>, <<20, 13>>, <<3, 2>>, <<10, 7>>, <<4, 3>>, <<16, 0>>, <<0, 9>> }

FileProbes == { Probe(g[1], g[2], n) : g \in FileGeometries, n \in 0..MaxTracks }

SubtitleChoices ==
    {NoSubtitle, ExtSubtitle} \cup { IntSubtitle(i) : i \in (-MaxTracks - 1)..MaxTracks }

InitFile ==
    InitWith(Programs, Listings(FileDirNames, Cardinality(FileDirNames)), {<<"a">>})

NextFile ==
    \/ \E k \in 1..Len(dir_listing) : ScanPath(k, FileProbes)
    \/ \E crop, ow \in BOOLEAN, sub \in SubtitleChoices :
         GetOptions(VIDEO_BITRATE, crop, sub, ow)
    \/ SkipSource
    \/ LaunchSource
    \/ \E c \in {CR} : ReadChunk(c)
    \/ ReadEOF
    \/ \E e \in Exits({0, 1}) : Exit(e[1], e[2])
    \/ Finish

SpecFile == InitFile /\ [][NextFile]_vars

(***************************************************************************)
(* One stream: a single source is converted and ffmpeg writes any sequence *)
(* of at most MaxStream chunks before it exits with any code.              *)
(***************************************************************************)
StreamChunks ==
    { CR, Text, Space, DurationNA,
      DurationAt(<<0, 1, 40, 0>>), DurationAt(<<0, 0, 0, 0>>),
      TimeAt(<<0, 0, 37, 50>>), TimeAt(<<0, 0, 29, 0>>), TimeAt(<<0, 2, 30, 0>>) }

InitStream == InitWith({"sms"}, { <<FileName(<<"a">>, "mkv")>> }, {<<"a">>})

NextStream ==
    \/ ScanPath(0, {Probe(16, 9, 0)})
    \/ GetOptions(VIDEO_BITRATE, FALSE, NoSubtitle, FALSE)
    \/ SkipSource
    \/ LaunchSource
    \/ \E c \in StreamChunks : ReadChunk(c)
    \/ ReadEOF
    \/ \E e \in Exits(ExitCodes) : Exit(e[1], e[2])
    \/ Finish

SpecStream == InitStream /\ [][NextStream]_vars

(***************************************************************************)
(* Geometry: a single source of every width and height up to MaxDim.       *)
(***************************************************************************)
GeomProbes == { Probe(w, h, 0) : w, h \in 0..MaxDim }

InitGeom == InitWith({"sms"}, { <<FileName(<<"a">>, "mkv")>> }, {<<"a">>})

NextGeom ==
    \/ ScanPath(0, GeomProbes)
    \/ \E crop \in BOOLEAN : GetOptions(VIDEO_BITRATE, crop, NoSubtitle, FALSE)
    \/ SkipSource
    \/ LaunchSource
    \/ \E c \in {CR} : ReadChunk(c)
    \/ ReadEOF
    \/ \E e \in Exits({0, 1}) : Exit(e[1], e[2])
    \/ Finish

SpecGeom == InitGeom /\ [][NextGeom]_vars

(***************************************************************************)
(* Labels: a directory of up to MaxBatch videos named 1.mkv, 2.mkv, ...,   *)
(* listed in that order, of which at most one has its output already.      *)
(***************************************************************************)
\* Most sources of a batch in the label specification.
MaxBatch == 10

NumberedVideo(k) == FileName(Str(k), "mkv")

NumberedListings == { [k \in 1..n |-> NumberedVideo(k)] : n \in 1..MaxBatch }

NumberedStems == { Str(k) : k \in 1..MaxBatch }

AtMostOneOld ==
    { o \in [NumberedStems -> {Absent, Old}] :
        Cardinality({ s \in NumberedStems : o[s] = Old }) <= 1 }

InitLabels == InitOver(Programs, NumberedListings, AtMostOneOld)

NextLabels ==
    \/ ScanPath(0, {Probe(16, 9, 0)})
    \/ \E ow \in BOOLEAN : GetOptions(VIDEO_BITRATE, FALSE, NoSubtitle, ow)
    \/ SkipSource
    \/ LaunchSource
    \/ \E c \in {CR} : ReadChunk(c)
    \/ ReadEOF
    \/ \E e \in Exits({0, 1}) : Exit(e[1], e[2])
    \/ Finish

SpecLabels == InitLabels /\ [][NextLabels]_vars

(***************************************************************************)
(* Properties.                                                             *)
(***************************************************************************)
Printed(src, suffix) ==
    \E i \in DOMAIN console : console[i].src = src /\ console[i].suffix = suffix

Launched(src) == \E k \in DOMAIN procs : procs[k].src = src

\* C1: a source whose output exists is, with overwrite disabled, reported
\* Skipped while the output directory and the set of launched children stay
\* as they are and the loop moves to the next source; with overwrite enabled
\* the step that launches its transcoder leaves the old file removed.  A
\* skipped source never has a transcoder.
C1_SkipOrOverwrite ==
    /\ [](\A i \in DOMAIN console :
            console[i].suffix = "Skipped, file already existed!"
                => ~Launched(console[i].src))
    /\ [][ AtSource /\ Exists(output_files, CurrentOutput) =>
             IF ~overwrite_output
             THEN /\ console'[Len(console')] =
                         Line(idx, CurrentMsg, "Skipped, file already existed!")
                  /\ output_files' = output_files
                  /\ procs' = procs
                  /\ idx' = idx + 1
                  /\ pc' = "loop"
             ELSE /\ Len(procs') = Len(procs) + 1
                  /\ procs'[Len(procs')].src = idx
                  /\ procs'[Len(procs')].status = "running"
                  /\ output_files'[CurrentOutput] = Absent ]_vars

\* C1 witness: a source was skipped and a later source was launched.
C1_Witness ==
    \E i \in DOMAIN console :
        /\ console[i].suffix = "Skipped, file already existed!"
        /\ output_files[OutputOf(source_list[console[i].src].video)] = Old
        /\ \E k \in DOMAIN procs : procs[k].src > console[i].src

\* C2: every line printed about the i-th source in scan order shows the
\* sequence number i, whatever happened to the sources before it.
C2_LabelShowsPosition ==
    \A i \in DOMAIN console :
        console[i].msg.index =
            ProgressMsg(console[i].src, Len(source_list), console[i].msg.video).index

\* The text of a sequence of chunks: what is left without the white space.
Payload(s) == SelectSeq(s, LAMBDA c : ~IsWhite(c))

\* C3: the exception raised for a failed transcode carries all the text read
\* from the child's stderr, the segment after the last carriage return included.
C3_FullDiagnosticText ==
    raised.kind = "Exception" => Payload(raised.text) = Payload(consumed)

\* C4: once the child was waited for, exit code 0 reports the source Completed
\* and raises nothing; any other exit code reports it Failed, raises, and never
\* reports it Completed.
C4_ExitCodeDecides ==
    \A k \in DOMAIN procs :
        procs[k].status = "exited" =>
            IF procs[k].returncode = 0
            THEN /\ Printed(procs[k].src, "Completed")
                 /\ ~Printed(procs[k].src, "Failed")
                 /\ k = Len(procs) => raised = NoError /\ pc # "crashed"
            ELSE /\ Printed(procs[k].src, "Failed")
                 /\ ~Printed(procs[k].src, "Completed")
                 /\ raised.kind = "Exception"
                 /\ pc = "crashed"

\* C4 witness: a child killed by a signal, after a line with a position
\* timestamp was read while no duration was known.
C4_Witness ==
    /\ procs # <<>>
    /\ CurrentProc.status = "exited"
    /\ CurrentProc.returncode < 0
    /\ Matches(all_stderr, "time") # {}
    /\ ~duration.known

\* C5: for a source of positive width and height, the plan crops exactly when
\* cropping is wanted and height/width < 0.65 (13/20), and its resolution is
\* 640x480 exactly when it crops or height/width >= 0.7 (7/10), 854x480 otherwise.
C5_PlanThresholds ==
    \A k \in DOMAIN procs :
        LET src == source_list[procs[k].src]
            w == src.ratio.den
            h == src.ratio.num
            plan == procs[k].plan
        IN  w > 0 /\ h > 0 =>
              /\ plan.crop.applied <=> (should_crop /\ 20 * h < 13 * w)
              /\ plan.crop.applied => plan.crop.rect = src.crop_cmd
              /\ plan.resolution = RESOLUTION_4BY3
                     <=> (plan.crop.applied \/ 10 * h >= 7 * w)
              /\ plan.resolution # RESOLUTION_4BY3 => plan.resolution = RESOLUTION_16BY9

\* C5 witness: cropping is wanted for a source of ratio exactly 0.65, which
\* is planned 16:9 without crop.
C5_Witness ==
    /\ procs # <<>>
    /\ should_crop
    /\ source_list[CurrentProc.src].ratio = [num |-> 13, den |-> 20]
    /\ ~CurrentProc.plan.crop.applied
    /\ CurrentProc.plan.resolution = RESOLUTION_16BY9

\* C6: every plan handed to the transcoder that carries a crop rectangle has
\* the 4:3 resolution.
C6_CropImplies4By3 ==
    \A k \in DOMAIN procs :
        procs[k].plan.crop.applied => procs[k].plan.resolution = RESOLUTION_4BY3

\* C6 witness: a plan with a crop rectangle was handed to the transcoder.
C6_Witness ==
    \E k \in DOMAIN procs :
        procs[k].plan.crop.applied /\ "crop" \in { procs[k].plan.vf[i] : i \in DOMAIN procs[k].plan.vf }

\* C7: with an internal track requested, the plan carries the directive of the
\* source and the index exactly when 0 <= index < number of tracks, and no
\* directive otherwise.
C7_InternalTrackInRange ==
    \A k \in DOMAIN procs :
        LET src == source_list[procs[k].src]
            i == subtitle_choice.index
        IN  subtitle_choice.kind = "int" =>
              IF 0 <= i /\ i < src.subtitles
              THEN procs[k].plan.subtitle = StreamDirective(src.video, i)
              ELSE procs[k].plan.subtitle = NoDirective

\* The crop rectangle of a scanned source of positive width and height, with
\* the x offset xoffset.
CropRectIs(src, xoffset) ==
    LET w == src.ratio.den
        h == src.ratio.num
        rect == src.crop_cmd
    IN  w > 0 /\ h > 0 =>
          /\ rect.width = (4 * h) \div 3
          /\ rect.height = h
          /\ rect.x = xoffset
          /\ rect.y = 0
          /\ w >= rect.width => rect.x >= 0

\* width - cropWidth of a scanned source
Margin(src) == src.ratio.den - (4 * src.ratio.num) \div 3

\* C8 as stated: the x offset is the mathematical floor of (width - cropWidth)/2,
\* also for width < cropWidth.
C8_CropRectFloor ==
    \A i \in DOMAIN source_list :
        CropRectIs(source_list[i], Margin(source_list[i]) \div 2)

\* C8 amended: the x offset is (width - cropWidth)/2 rounded toward zero, which
\* is the floor for width >= cropWidth and the ceiling for width < cropWidth.
C8_CropRectTruncated ==
    \A i \in DOMAIN source_list :
        LET d == Margin(source_list[i])
        IN  CropRectIs(source_list[i], IF d >= 0 THEN d \div 2 ELSE -((-d) \div 2))

\* C8 witness: a source narrower than its crop width by an odd number of pixels.
C8_Witness ==
    \E i \in DOMAIN source_list :
        LET src == source_list[i]
        IN  /\ src.ratio.den > 0
            /\ src.ratio.num > 0
            /\ src.ratio.den < src.crop_cmd.width
            /\ (src.crop_cmd.width - src.ratio.den) % 2 = 1

\* C9: a source probed with width <= 0 or height <= 0 fails the scan with
\* InvalidGeometry: it never enters the source list with a ratio and a crop
\* rectangle, never gets a plan or a transcoder, and no other error is raised
\* for it.
C9_InvalidGeometryRejected ==
    /\ \A i \in DOMAIN source_list :
          source_list[i].ratio.den > 0 /\ source_list[i].ratio.num > 0
    /\ \A k \in DOMAIN procs :
          LET src == source_list[procs[k].src]
          IN  src.ratio.den > 0 /\ src.ratio.num > 0
    /\ pc = "crashed" /\ source_list = <<>> => raised.kind = "InvalidGeometry"

\* C10: at most one transcoder child is live, and every child but the last
\* launched has reached the end of its stderr and was waited for.
C10_OneChildAtATime ==
    /\ Cardinality({ k \in DOMAIN procs : procs[k].status # "exited" }) <= 1
    /\ \A k \in DOMAIN procs :
          k < Len(procs) => procs[k].eof /\ procs[k].status = "exited"

\* C10 witness: a second child runs after the first was waited for.
C10_Witness ==
    /\ Len(procs) >= 2
    /\ procs[Len(procs)].status = "running"
    /\ procs[1].status = "exited"

\* The digits of s, a sequence of characters, are decimal digits only.
AllDigits(s) == \A i \in DOMAIN s : \E d \in DOMAIN DigitChars : s[i] = DigitChars[d]

\* s is a decimal number without a leading zero after k pad characters.
PaddedWith(s, fill) ==
    \E k \in 0..(Len(s) - 1) :
        /\ \A i \in 1..k : s[i] = fill
        /\ s[k + 1] # "0"
        /\ AllDigits(SubSeq(s, k + 1, Len(s)))

\* The label of the first source of a batch of ten.
FirstOfTen(i) == Len(source_list) = 10 /\ console[i].src = 1

\* C11 as stated: the index of every label is as wide as the total has digits
\* and is padded with zeros: the first label of a batch of ten reads "01/10".
C11_ZeroPadded ==
    \A i \in DOMAIN console :
        /\ Len(console[i].msg.index) = Len(Str(console[i].msg.total))
        /\ AllDigits(console[i].msg.index)
        /\ FirstOfTen(i) => console[i].msg.index = <<"0", "1">>

\* C11: the index of every label is as wide as the total has digits, so all
\* labels of a batch have the same index width, and it is the sequence number
\* padded on the left with spaces: the first label of a batch of ten reads
\* " 1/10".
C11_SpacePadded ==
    \A i \in DOMAIN console :
        /\ console[i].msg.total = Len(source_list)
        /\ Len(console[i].msg.index) = Len(Str(Len(source_list)))
        /\ PaddedWith(console[i].msg.index, " ")
        /\ FirstOfTen(i) => console[i].msg.index = <<" ", "1">>

\* C11 witness: a batch of ten printed a label for its first source and the
\* two-digit label of its last one.
C11_Witness ==
    /\ Len(source_list) = 10
    /\ \E i \in DOMAIN console : console[i].src = 1 /\ Len(console[i].msg.index) = 2
    /\ \E i \in DOMAIN console : console[i].msg.index = <<"1", "0">>

\* The line that a carriage return read now completes.
CompletedLine == Strip(Append(buffer, CR))

\* This step reads the carriage return that completes a line.
CompletesLine ==
    /\ pc = "read"
    /\ consumed' = Append(consumed, CR)

\* p is the floor of 100 * current_time / total.
IsFloorPercent(p, current_time, total) ==
    /\ p * total <= 100 * current_time
    /\ 100 * current_time < (p + 1) * total

\* C12: every completed line that carries a position timestamp and is read
\* when the duration is already known emits one progress update, whose percent
\* is floor(currentSeconds / totalSeconds * 100), unclamped.
C12_PercentIsFloor ==
    [][ (CompletesLine /\ duration.known /\ Matches(CompletedLine, "time") # {}) =>
            /\ Len(emitted') = Len(emitted) + 1
            /\ IsFloorPercent(emitted'[Len(emitted')],
                              Seconds(FirstMatch(CompletedLine, "time").t),
                              duration.secs) ]_vars

\* The chunks of the stream up to the last carriage return read.
RECURSIVE CompletedPart(_)
CompletedPart(s) ==
    IF s = <<>> \/ s[Len(s)] = CR THEN s ELSE CompletedPart(SubSeq(s, 1, Len(s) - 1))

\* No completed line of the stream read so far announces a duration.
NoDurationLine == Matches(CompletedPart(consumed), "Duration") = {}

\* C13: while no consumed line has announced a duration, no percentage is
\* emitted whatever the lines are, every completed line is retained in the
\* diagnostic text, and the run reads on to the end of the stream and ends in
\* the classification by exit code: nothing else is raised.
C13_NoDurationNoPercent ==
    (procs # <<>> /\ NoDurationLine) =>
        /\ emitted = <<>>
        /\ Payload(all_stderr) = Payload(CompletedPart(consumed))
        /\ pc \in {"read", "wait", "loop", "done", "crashed"}
        /\ pc # "read" => CurrentProc.eof
        /\ CurrentProc.status = "exited" =>
              /\ CurrentProc.eof
              /\ raised.kind = (IF CurrentProc.returncode = 0
                                THEN NoError.kind ELSE "Exception")
              /\ pc = "crashed" <=> CurrentProc.returncode # 0

\* C13 witness: the child exited with code 0 after a stream whose completed
\* lines carry a timestamp and an unavailable duration, and nothing was emitted.
C13_Witness ==
    /\ procs # <<>>
    /\ NoDurationLine
    /\ CurrentProc.status = "exited"
    /\ CurrentProc.returncode = 0
    /\ Matches(all_stderr, "time") # {}
    /\ Matches(all_stderr, "DurationNA") # {}
    /\ emitted = <<>>

\* The transcoder for the source at position src exited non-zero.
FailedAt(src) ==
    \E k \in DOMAIN procs :
        procs[k].src = src /\ procs[k].status = "exited" /\ procs[k].returncode # 0

\* C14: once the transcoder for a source exited non-zero the batch is over:
\* nothing is printed about a later source (no label, no Skipped, no outcome),
\* no transcoder runs for a later source, and the program takes no further step.
C14_FailureEndsBatch ==
    /\ [](\A src \in DOMAIN source_list :
             FailedAt(src) =>
                /\ pc = "crashed"
                /\ raised.kind = "Exception"
                /\ \A i \in DOMAIN console : console[i].src <= src
                /\ \A k \in DOMAIN procs : procs[k].src <= src
                /\ console[Len(console)] = Line(src, console[Len(console)].msg, "Failed"))
    /\ [][(\E src \in DOMAIN source_list : FailedAt(src)) => UNCHANGED vars]_vars

\* C14 witness: the transcoder of a source that is not the last one failed,
\* after an earlier source was completed.
C14_Witness ==
    \E src \in DOMAIN source_list :
        /\ FailedAt(src)
        /\ 1 < src /\ src < Len(source_list)
        /\ Printed(1, "Completed")

\* C15: distinct sources of a batch resolve to distinct output paths, so the
\* file a completed source produced stays as that source wrote it, and a
\* source is skipped only for a file that was there before the batch.
C15_OutputsApart ==
    /\ \A i, j \in DOMAIN source_list :
          i # j => OutputOf(source_list[i].video) # OutputOf(source_list[j].video)
    /\ \A k \in DOMAIN procs :
          (procs[k].status = "exited" /\ procs[k].returncode = 0) =>
              output_files[procs[k].plan.output] = Written(procs[k].src)
    /\ \A i \in DOMAIN console :
          console[i].suffix = "Skipped, file already existed!" =>
              output_files[OutputOf(source_list[console[i].src].video)] = Old

\* C16: the crop rectangle of every plan that applies it, for a source of
\* positive width and height, lies inside the source frame and has the
\* source's height.
C16_CropInsideFrame ==
    \A k \in DOMAIN procs :
        LET w == source_list[procs[k].src].ratio.den
            h == source_list[procs[k].src].ratio.num
            rect == procs[k].plan.crop.rect
        IN  (procs[k].plan.crop.applied /\ w > 0 /\ h > 0) =>
              /\ should_crop
              /\ rect.x >= 0
              /\ rect.width >= 0
              /\ rect.x + rect.width <= w
              /\ rect.height = h
              /\ rect.y = 0

\* C16 witness: a plan applies a crop rectangle that leaves an uneven margin:
\* the rectangle ends one column before the right edge of the frame.
C16_Witness ==
    \E k \in DOMAIN procs :
        LET w == source_list[procs[k].src].ratio.den
            rect == procs[k].plan.crop.rect
        IN  /\ procs[k].plan.crop.applied
            /\ rect.x > 0
            /\ rect.x + rect.width = w - rect.x - 1

====
